---- MODULE Spec2Model ----
(***************************************************************************)
(* girlscout: the service registry / supervisor (src/src/monitor.rs), the  *)
(* boot / shutdown sequence of the process (src/src/main.rs), the console  *)
(* client (src/src/rcon.rs, src/src/misc.rs), the status loop of one       *)
(* service and the varint codec (src/src/monitor.rs).                      *)
(*                                                                         *)
(* The runtime is tokio's current_thread flavour: every task runs from one *)
(* await point to the next without interruption, so one action of this     *)
(* module is the code between two await points of one task.  The registry  *)
(* lock is tokio::sync::Mutex: lock() on a free mutex returns at once, and  *)
(* a held mutex is handed to its waiters in the order they asked for it.   *)
(* lockQ is that queue, its head is the holder.                            *)
(***************************************************************************)
EXTENDS Integers, Sequences, FiniteSets, TLC

(* ------------------------------- bounds -------------------------------- *)

NumChannels == 2      \* output channels commands are issued in
MaxCmds     == 2      \* command invocations in flight at the same time
MaxAnchors  == 2      \* anchor messages the platform creates over the whole run
MaxBoots    == 2      \* times the process is started

Channels == 1..NumChannels
Cmds     == 1..MaxCmds

(* --------------------------- program constants ------------------------- *)

SERVER_NAME == "Minecraft Server"
SERVER_HOST == "localhost"
SERVER_PORT == 25565

VARIABLES
    phase,         \* "off" | "running" | "exited": the process
    boots,         \* number of process starts so far
    store,         \* contents of services.json (a JSON array)
    nextMid,       \* next message id the chat platform hands out
    cancel_token,  \* Data.cancel_token: TRUE once cancelled
    registry,      \* Data.services.1: Vec<Arc<MonitorService>>, as service ids
    services,      \* every MonitorService constructed by this process
    lockQ,         \* holder (head) and waiters of the registry Mutex
    cmd,           \* the command invocations in flight
    sig,           \* the signal handler task
    persisted      \* history: descriptors of the registry at the last completed write

vars == <<phase, boots, store, nextMid, cancel_token, registry, services,
          lockQ, cmd, sig, persisted>>

\* The console client (rcon.rs).
VARIABLES
    rcon,          \* Data.rcon: "connecting" | "None" | "Some"
    req_id,        \* RconClient.req_id
    connection,    \* RconClient.connection and the server behind it
    rconQ,         \* holder (head) and waiters of the Mutex around the client
    call,          \* the console command invocations in flight
    sent,          \* history: packets handed to write_all so far
    failed         \* history: an execute has failed with an I/O error or a mismatch

rvars == <<rcon, req_id, connection, rconQ, call, sent, failed>>

\* One call of a codec function (varint_encode / varint_decode, RconPacket).
VARIABLES
    arg,           \* the function called and its arguments
    ret            \* what the calls made so far returned

cvars == <<arg, ret>>

\* The status loop of one service (MonitorService::run_status).
VARIABLES
    run,           \* the locals of run_status and its position in the loop
    msg,           \* the anchor message as the chat platform holds it
    published      \* history: the last update published and the image it shows

svars == <<run, msg, published>>

allvars == <<vars, rvars, cvars, svars>>

\* The console client is not built (no RCON_PASSWORD).
RconOff ==
    /\ rcon = "None"
    /\ req_id = 0
    /\ connection = [status |-> "reset", inbox |-> <<>>, asked |-> <<>>]
    /\ rconQ = <<>>
    /\ call = <<>>
    /\ sent = 0
    /\ failed = FALSE

\* No codec function is being called.
CodecOff == arg = <<>> /\ ret = <<>>

\* No status loop is followed in detail.
StatusOff == run = <<>> /\ msg = <<>> /\ published = <<>>

(* ------------------------------ sequences ------------------------------ *)

Range(s) == {s[i] : i \in 1..Len(s)}

\* Vec::pop where swap_remove(index) was meant.
swap_remove_last(v, i) == SubSeq(v, 1, Len(v) - 1)

\* Vec::swap_remove: the element at index i is replaced by the last one.

swap_remove(v, i) ==
    IF i = Len(v) THEN SubSeq(v, 1, Len(v) - 1)
    ELSE [j \in 1..(Len(v) - 1) |-> IF j = i THEN v[Len(v)] ELSE v[j]]

\* position with None replaced by the last index.
position_or_last(reg, svcs, c) ==
    IF \E i \in 1..Len(reg) : svcs[reg[i]].channel_id = c
    THEN CHOOSE i \in 1..Len(reg) :
            /\ svcs[reg[i]].channel_id = c
            /\ \A j \in 1..(i - 1) : svcs[reg[j]].channel_id # c
    ELSE Len(reg)

\* Iterator::position over the registry, by channel id; 0 stands for None.
position(reg, svcs, c) ==
    IF \E i \in 1..Len(reg) : svcs[reg[i]].channel_id = c
    THEN CHOOSE i \in 1..Len(reg) :
            /\ svcs[reg[i]].channel_id = c
            /\ \A j \in 1..(i - 1) : svcs[reg[j]].channel_id # c
    ELSE 0

\* Iterator::any over the registry, by channel id.
any(reg, svcs, c) == \E i \in 1..Len(reg) : svcs[reg[i]].channel_id = c

Count(reg, svcs, c) == Cardinality({i \in 1..Len(reg) : svcs[reg[i]].channel_id = c})

(* ------------------------------- the lock ------------------------------ *)

CmdTask(k) == <<"cmd", k>>
SvcTask(s) == <<"svc", s>>
SigTask    == <<"sig", 0>>

Free       == lockQ = <<>>
Holds(t)   == Len(lockQ) > 0 /\ Head(lockQ) = t
Enqueue(t) == Append(lockQ, t)

(* ----------------------------- descriptors ----------------------------- *)

StatusType(mid) ==
    [tag |-> "Status", name |-> SERVER_NAME, host |-> SERVER_HOST,
     port |-> SERVER_PORT, mid |-> mid]

OtherType(tag) == [tag |-> tag, name |-> "", host |-> "", port |-> SERVER_PORT, mid |-> 0]

\* What serde keeps of a MonitorService: http and token are #[serde(skip)].
Descriptor(svc) == [channel_id |-> svc.channel_id, monitor_type |-> svc.monitor_type]

\* A JSON object is a sequence of <<key, value>> members.
JsonGet(obj, key) ==
    IF \E i \in 1..Len(obj) : obj[i][1] = key
    THEN obj[CHOOSE i \in 1..Len(obj) : obj[i][1] = key][2]
    ELSE "null"

\* serde's externally tagged enum: {"Status": {...}}.
SerializeType(mt) ==
    IF mt.tag = "Status"
    THEN << <<"Status", << <<"name", mt.name>>, <<"host", mt.host>>,
                          <<"port", mt.port>>, <<"mid", mt.mid>> >> >> >>
    ELSE << <<mt.tag, << <<"port", mt.port>> >> >> >>

\* #[serde(skip)] on mid as well.
SerializeService_NoMid(svc) ==
    << <<"channel_id", svc.channel_id>>,
       <<"monitor_type", SerializeType([svc.monitor_type EXCEPT !.mid = 0])>> >>

SerializeService(svc) ==
    << <<"channel_id", svc.channel_id>>,
       <<"monitor_type", SerializeType(svc.monitor_type)>> >>

\* serde_json::to_string(&*services)
to_string(reg, svcs) == [i \in 1..Len(reg) |-> SerializeService(svcs[reg[i]])]

DeserializeType(j) ==
    LET tag  == j[1][1]
        body == j[1][2]
    IN  IF tag = "Status"
        THEN [tag |-> "Status", name |-> JsonGet(body, "name"),
              host |-> JsonGet(body, "host"), port |-> JsonGet(body, "port"),
              mid |-> JsonGet(body, "mid")]
        ELSE [tag |-> tag, name |-> "", host |-> "", port |-> JsonGet(body, "port"),
              mid |-> 0]

\* MonitorService::new, with the state of its task, spawned and not yet polled.
NewService(token, channel_id, monitor_type) ==
    [channel_id |-> channel_id, monitor_type |-> monitor_type, token |-> token,
     pc |-> "spawned", is_online |-> FALSE, res |-> "none", sleep_done |-> FALSE]

\* A child token that is born live whatever the state of its parent.
child_token_live(parent) == FALSE

\* CancellationToken::child_token: a child of a cancelled token is born cancelled.
child_token(parent) == parent

\* A cancel that reaches no child.
cancel_none(svcs) == svcs

\* CancellationToken::cancel on the parent cancels every child handed out so far.

cancel_children(svcs) == [s \in DOMAIN svcs |-> [svcs[s] EXCEPT !.token = TRUE]]

\* main's restore: one MonitorService per stored value.
RestoreService(value, parent) ==
    NewService(child_token(parent),
               JsonGet(value, "channel_id"),
               DeserializeType(JsonGet(value, "monitor_type")))

(* ------------------------------ initial state -------------------------- *)

Idle == [op |-> "idle", channel |-> 0, pc |-> "idle", result |-> "none", sid |-> 0]

\* The invocation has returned r; what is left of it is the result its caller sees.
Done(r) == [Idle EXCEPT !.op = "done", !.pc = "done", !.result = r]

SigIdle == [pc |-> "recv", data |-> <<>>, snap |-> <<>>]

\* services.json is absent.
Init ==
    /\ phase = "off"
    /\ boots = 0
    /\ store = <<>>
    /\ nextMid = 1
    /\ cancel_token = FALSE
    /\ registry = <<>>
    /\ services = <<>>
    /\ lockQ = <<>>
    /\ cmd = [k \in Cmds |-> Idle]
    /\ sig = SigIdle
    /\ persisted = [valid |-> FALSE, descs |-> {}]
    /\ RconOff /\ CodecOff /\ StatusOff

(* --------------------------- boot and restore -------------------------- *)

\* main.rs setup closure: read services.json, build one MonitorService per
\* value, spawn one task per service, spawn the signal handler task.
Restore ==
    /\ phase' = "running"
    /\ boots' = boots + 1
    /\ cancel_token' = FALSE
    /\ services' = [i \in 1..Len(store) |-> RestoreService(store[i], FALSE)]
    /\ registry' = [i \in 1..Len(store) |-> i]
    /\ lockQ' = <<>>
    /\ cmd' = [k \in Cmds |-> Idle]
    /\ sig' = SigIdle
    /\ UNCHANGED <<store, nextMid, persisted>>

\* The process is started.
Boot ==
    /\ phase = "off"
    /\ Restore

\* The process is started again after it has exited.
Restart ==
    /\ phase = "exited"
    /\ boots < MaxBoots
    /\ Restore

\* Commands are dispatched until shutdown_all has stopped the shards; an
\* invocation takes the lowest free slot.
Accepting(k) ==
    /\ phase = "running"
    /\ sig.pc = "recv"
    /\ cmd[k].op = "idle"
    /\ \A j \in 1..(k - 1) : cmd[j].op # "idle"

(* ------------------------------ sub::start ----------------------------- *)

\* The existence check of start, made by invocation k holding the lock as
\* the head of `held`.  The guard is a temporary of the if condition: it is
\* dropped before either branch runs.
Check(k, inv, held) ==
    /\ lockQ' = Tail(held)
    /\ IF any(registry, services, inv.channel)
       THEN cmd' = [cmd EXCEPT ![k] = Done("AlreadyExists")]
       ELSE cmd' = [cmd EXCEPT ![k] = [inv EXCEPT !.pc = "say"]]

\* Starts that may still be given an anchor message.
Announcing == {j \in Cmds : cmd[j].pc \in {"check_wait", "say"}}

\* start is dispatched in channel c.
CmdStart(k, c) ==
    /\ Accepting(k)
    /\ (nextMid - 1) + Cardinality(Announcing) < MaxAnchors
    /\ LET inv == [Idle EXCEPT !.op = "start", !.channel = c] IN
       IF Free
       THEN Check(k, inv, <<CmdTask(k)>>)
       ELSE /\ cmd' = [cmd EXCEPT ![k] = [inv EXCEPT !.pc = "check_wait"]]
            /\ lockQ' = Enqueue(CmdTask(k))
    /\ UNCHANGED <<phase, boots, store, nextMid, cancel_token, registry,
                   services, sig, persisted>>

\* The lock is handed to a start that waited for its check.
StartCheck(k) ==
    /\ phase = "running"
    /\ cmd[k].pc = "check_wait"
    /\ Holds(CmdTask(k))
    /\ Check(k, cmd[k], lockQ)
    /\ UNCHANGED <<phase, boots, store, nextMid, cancel_token, registry,
                   services, sig, persisted>>

\* services.lock().await.push(service) by invocation k holding the lock as
\* the head of `held`, then ctx.say("Started service").await?, an await that
\* touches nothing shared and whose outcome is the command's result.
Push(k, sid, held) ==
    /\ registry' = Append(registry, sid)
    /\ lockQ' = Tail(held)
    /\ \E r \in {"Ok", "Err"} : cmd' = [cmd EXCEPT ![k] = Done(r)]

\* channel.say("Initializing service").await?.id, which creates the anchor
\* message, and defer_ephemeral().await? (two awaits that touch nothing
\* shared, either of which may fail), then
\* start_service: the service is constructed and its task spawned before the
\* registry lock is asked for.
StartService(k) ==
    /\ phase = "running"
    /\ cmd[k].pc = "say"
    /\ \/ /\ services' = Append(services,
                NewService(child_token(cancel_token), cmd[k].channel,
                           StatusType(nextMid)))
          /\ nextMid' = nextMid + 1
          /\ IF Free
             THEN Push(k, Len(services) + 1, <<CmdTask(k)>>)
             ELSE /\ cmd' = [cmd EXCEPT ![k].pc = "push_wait",
                                        ![k].sid = Len(services) + 1]
                  /\ lockQ' = Enqueue(CmdTask(k))
                  /\ UNCHANGED registry
       \/ /\ cmd' = [cmd EXCEPT ![k] = Done("Err")]
          /\ nextMid' \in {nextMid, nextMid + 1}
          /\ UNCHANGED <<services, lockQ, registry>>
    /\ UNCHANGED <<phase, boots, store, cancel_token, sig, persisted>>

\* The lock is handed to a start_service that waited for its push.
StartPush(k) ==
    /\ phase = "running"
    /\ cmd[k].pc = "push_wait"
    /\ Holds(CmdTask(k))
    /\ Push(k, cmd[k].sid, lockQ)
    /\ UNCHANGED <<phase, boots, store, nextMid, cancel_token, services, sig,
                   persisted>>

(* ------------------------------- sub::stop ----------------------------- *)

\* stop's critical section, by invocation k holding the lock as the head of
\* `held`: position, then cancel and swap_remove, or NotFound.  The guard
\* lives to the end of the function: it is still held during say.
Stop(k, inv, held) ==
    LET index == position(registry, services, inv.channel) IN
    IF index # 0
    THEN /\ services' = [services EXCEPT ![registry[index]].token = TRUE]
         /\ registry' = swap_remove(registry, index)
         /\ cmd' = [cmd EXCEPT ![k] = [inv EXCEPT !.pc = "stop_say"]]
         /\ lockQ' = held
    ELSE /\ cmd' = [cmd EXCEPT ![k] = Done("NotFound")]
         /\ lockQ' = Tail(held)
         /\ UNCHANGED <<registry, services>>

CmdStop(k, c) ==
    /\ Accepting(k)
    /\ LET inv == [Idle EXCEPT !.op = "stop", !.channel = c] IN
       IF Free
       THEN Stop(k, inv, <<CmdTask(k)>>)
       ELSE /\ cmd' = [cmd EXCEPT ![k] = [inv EXCEPT !.pc = "stop_wait"]]
            /\ lockQ' = Enqueue(CmdTask(k))
            /\ UNCHANGED <<registry, services>>
    /\ UNCHANGED <<phase, boots, store, nextMid, cancel_token, sig, persisted>>

\* The lock is handed to a stop that waited for it.
StopLocked(k) ==
    /\ phase = "running"
    /\ cmd[k].pc = "stop_wait"
    /\ Holds(CmdTask(k))
    /\ Stop(k, cmd[k], lockQ)
    /\ UNCHANGED <<phase, boots, store, nextMid, cancel_token, sig, persisted>>

\* ctx.say("Service stopped").await?, after which the guard is dropped.
StopSay(k) ==
    /\ phase = "running"
    /\ cmd[k].pc = "stop_say"
    /\ \E r \in {"Ok", "Err"} : cmd' = [cmd EXCEPT ![k] = Done(r)]
    /\ lockQ' = Tail(lockQ)
    /\ UNCHANGED <<phase, boots, store, nextMid, cancel_token, registry,
                   services, sig, persisted>>

\* The command's result has been handed to the caller.
CmdReturn(k) ==
    /\ phase = "running"
    /\ cmd[k].pc = "done"
    /\ cmd' = [cmd EXCEPT ![k] = Idle]
    /\ UNCHANGED <<phase, boots, store, nextMid, cancel_token, registry,
                   services, lockQ, sig, persisted>>

(* ------------------------- MonitorService::run ------------------------- *)

Svcs == DOMAIN services

SvcFrame == UNCHANGED <<phase, boots, store, nextMid, cancel_token, cmd, sig,
                        persisted>>

\* The removal at the end of run, by the task of service s holding the lock
\* as the head of `held`: position by channel id, unwrap, swap_remove.
\* unwrap on None panics; the guard is dropped while unwinding.
Remove(s, err, held) ==
    LET index == position(registry, services, services[s].channel_id) IN
    /\ IF index # 0
       THEN /\ registry' = swap_remove(registry, index)
            /\ services' = [services EXCEPT ![s].pc = "done", ![s].res = err,
                                            ![s].is_online = FALSE]
       ELSE /\ services' = [services EXCEPT ![s].pc = "panicked", ![s].res = err,
                                            ![s].is_online = FALSE]
            /\ UNCHANGED registry
    /\ lockQ' = Tail(held)

\* run_status returned Err through `?`: should_remove is true and run asks
\* for the registry lock.
Fail(s, err) ==
    IF Free
    THEN Remove(s, err, <<SvcTask(s)>>)
    ELSE /\ services' = [services EXCEPT ![s].pc = "remove_wait", ![s].res = err,
                                         ![s].is_online = FALSE]
         /\ lockQ' = Enqueue(SvcTask(s))
         /\ UNCHANGED registry

\* The loop left through break: Ok(token.is_cancelled()), which is Ok(true).
Break(s) ==
    [services EXCEPT ![s].pc = "done", ![s].res = "Ok(true)",
                     ![s].is_online = FALSE, ![s].sleep_done = FALSE]

\* run: should_remove is true for Ok(false) and for Err(_).
should_remove(res) == res # "Ok(true)"

\* The end of run once its match has produced res.
Finish(s, res) ==
    IF should_remove(res)
    THEN Fail(s, res)
    ELSE /\ services' = Break(s)
         /\ UNCHANGED <<lockQ, registry>>

\* A match that sends every variant to run_status.
is_status_any(monitor_type) == TRUE

\* run: the arm MonitorType::Status { .. } of the match.
is_status(monitor_type) == monitor_type.tag = "Status"

\* A token that is never seen cancelled.
is_cancelled_never(svc) == FALSE

\* CancellationToken::cancelled() is ready, is_cancelled() is true.
is_cancelled(svc) == svc.token

\* First poll of the task.  Status: run_status up to its first get_message;
\* any other variant: Ok(true), nothing to remove, the task is finished.
SvcBegin(s) ==
    /\ phase = "running"
    /\ services[s].pc = "spawned"
    /\ IF is_status(services[s].monitor_type)
       THEN /\ services' = [services EXCEPT ![s].pc = "poll"]
            /\ UNCHANGED <<lockQ, registry>>
       ELSE Finish(s, "Ok(true)")
    /\ SvcFrame

\* One status query, from get_message to the parsed response.  Its awaits
\* touch nothing shared, so they are one step:
\*   http.get_message(cid, mid).await?                       Err(http)
\*   if let Ok(stream) = TcpStream::connect(..).await {..}   else: offline
\*   write_all(..).await?, read_exact(..).await? (twice)     Err(io)
\*   json::from_slice(..)?, BASE64_STANDARD.decode(..)?      Err(malformed)
Poll(s) ==
    /\ phase = "running"
    /\ services[s].pc = "poll"
    /\ \/ /\ \E online \in BOOLEAN :
                services' = [services EXCEPT ![s].pc = "edit", ![s].is_online = online]
          /\ UNCHANGED <<lockQ, registry>>
       \/ \E err \in {"Err(http)", "Err(io)", "Err(malformed)"} : Finish(s, err)
    /\ SvcFrame

\* msg.edit(..).await?  and, in the same poll, the first poll of select!: the
\* sleep has just been created, so only the cancellation can be ready.
Edit(s) ==
    /\ phase = "running"
    /\ services[s].pc = "edit"
    /\ \/ IF is_cancelled(services[s])
          THEN Finish(s, "Ok(true)")
          ELSE /\ services' = [services EXCEPT ![s].pc = "sleeping",
                                               ![s].is_online = FALSE]
               /\ UNCHANGED <<lockQ, registry>>
       \/ Finish(s, "Err(http)")
    /\ SvcFrame

\* The 60 second sleep elapses: the task is woken, not yet polled.
TimerElapsed(s) ==
    /\ phase = "running"
    /\ services[s].pc = "sleeping"
    /\ ~services[s].sleep_done
    /\ services' = [services EXCEPT ![s].sleep_done = TRUE]
    /\ UNCHANGED <<lockQ, registry>>
    /\ SvcFrame

\* The woken task polls select!, which polls its branches in random order:
\* whichever ready branch is polled first wins.
Select(s) ==
    /\ phase = "running"
    /\ services[s].pc = "sleeping"
    /\ \/ /\ is_cancelled(services[s])
          /\ Finish(s, "Ok(true)")
       \/ /\ services[s].sleep_done
          /\ services' = [services EXCEPT ![s].pc = "poll",
                                          ![s].sleep_done = FALSE]
          /\ UNCHANGED <<lockQ, registry>>
    /\ SvcFrame

\* The lock is handed to a task that waited for its removal.
SvcRemove(s) ==
    /\ phase = "running"
    /\ services[s].pc = "remove_wait"
    /\ Holds(SvcTask(s))
    /\ Remove(s, services[s].res, lockQ)
    /\ SvcFrame

(* ------------------- the signal handler task and main ------------------ *)

\* to_string(&*services) under the lock, then fs::write is issued; the guard
\* lives to the end of the task.
Snapshot(svcs, held) ==
    /\ sig' = [pc |-> "writing", data |-> to_string(registry, svcs),
               snap |-> registry]
    /\ lockQ' = held

\* SIGTERM: shutdown_all, token.cancel(), then the handler asks for the lock.
\* shutdown_all ends by waking main, whose client.start() returns.
SigTerm ==
    /\ phase = "running"
    /\ sig.pc = "recv"
    /\ cancel_token' = TRUE
    /\ services' = cancel_children(services)
    /\ IF Free
       THEN Snapshot(cancel_children(services), <<SigTask>>)
       ELSE /\ sig' = [sig EXCEPT !.pc = "persist_wait"]
            /\ lockQ' = Enqueue(SigTask)
    /\ UNCHANGED <<phase, boots, store, nextMid, registry, cmd, persisted>>

\* The lock is handed to the waiting handler.
Persist ==
    /\ phase = "running"
    /\ sig.pc = "persist_wait"
    /\ Holds(SigTask)
    /\ Snapshot(services, lockQ)
    /\ UNCHANGED <<phase, boots, store, nextMid, cancel_token, registry,
                   services, cmd, persisted>>

Written == [valid |-> TRUE,
            descs |-> {Descriptor(services[s]) : s \in Range(sig.snap)}]

\* fs::write(..).await.expect(..): the file is written, or the task panics;
\* either way the guard is dropped.
WriteDone ==
    /\ phase = "running"
    /\ sig.pc = "writing"
    /\ \/ /\ store' = sig.data
          /\ persisted' = Written
          /\ sig' = [pc |-> "done", data |-> <<>>, snap |-> <<>>]
       \/ /\ sig' = [pc |-> "panicked", data |-> <<>>, snap |-> <<>>]
          /\ UNCHANGED <<store, persisted>>
    /\ lockQ' = Tail(lockQ)
    /\ UNCHANGED <<phase, boots, nextMid, cancel_token, registry, services, cmd>>

\* main returns once client.start() has returned: the runtime is dropped and
\* with it every task, wherever it stands.  A write already handed to the
\* blocking pool may or may not reach the disk.
MainReturn ==
    /\ phase = "running"
    /\ sig.pc # "recv"
    /\ phase' = "exited"
    /\ \/ UNCHANGED <<store, persisted>>
       \/ /\ sig.pc = "writing"
          /\ store' = sig.data
          /\ persisted' = Written
    /\ sig' = [sig EXCEPT !.data = <<>>, !.snap = <<>>]
    /\ registry' = <<>>
    /\ services' = <<>>
    /\ lockQ' = <<>>
    /\ cmd' = [k \in Cmds |-> Idle]
    /\ UNCHANGED <<boots, nextMid, cancel_token>>

(* ---------------------------- specification ---------------------------- *)

Next ==
    \/ Boot /\ UNCHANGED <<rvars, cvars, svars>>
    \/ \E k \in Cmds, c \in Channels : CmdStart(k, c) /\ UNCHANGED <<rvars, cvars, svars>>
    \/ \E k \in Cmds : StartCheck(k) /\ UNCHANGED <<rvars, cvars, svars>>
    \/ \E k \in Cmds : StartService(k) /\ UNCHANGED <<rvars, cvars, svars>>
    \/ \E k \in Cmds : StartPush(k) /\ UNCHANGED <<rvars, cvars, svars>>
    \/ \E k \in Cmds, c \in Channels : CmdStop(k, c) /\ UNCHANGED <<rvars, cvars, svars>>
    \/ \E k \in Cmds : StopLocked(k) /\ UNCHANGED <<rvars, cvars, svars>>
    \/ \E k \in Cmds : StopSay(k) /\ UNCHANGED <<rvars, cvars, svars>>
    \/ \E k \in Cmds : CmdReturn(k) /\ UNCHANGED <<rvars, cvars, svars>>
    \/ \E s \in Svcs : SvcBegin(s) /\ UNCHANGED <<rvars, cvars, svars>>
    \/ \E s \in Svcs : Poll(s) /\ UNCHANGED <<rvars, cvars, svars>>
    \/ \E s \in Svcs : Edit(s) /\ UNCHANGED <<rvars, cvars, svars>>
    \/ \E s \in Svcs : TimerElapsed(s) /\ UNCHANGED <<rvars, cvars, svars>>
    \/ \E s \in Svcs : Select(s) /\ UNCHANGED <<rvars, cvars, svars>>
    \/ \E s \in Svcs : SvcRemove(s) /\ UNCHANGED <<rvars, cvars, svars>>
    \/ SigTerm /\ UNCHANGED <<rvars, cvars, svars>>
    \/ Persist /\ UNCHANGED <<rvars, cvars, svars>>
    \/ WriteDone /\ UNCHANGED <<rvars, cvars, svars>>
    \/ MainReturn /\ UNCHANGED <<rvars, cvars, svars>>

\* One run of the process, from its start to its exit.
Spec == Init /\ [][Next]_allvars

(* ---------------- the process restarted on its own store --------------- *)

\* services.json as an earlier run left it: a Death monitor (a variant no
\* command can start) in the last channel.
InitRestart ==
    /\ phase = "off"
    /\ boots = 0
    /\ store = << SerializeService(NewService(FALSE, NumChannels, OtherType("Death"))) >>
    /\ nextMid = 1
    /\ cancel_token = FALSE
    /\ registry = <<>>
    /\ services = <<>>
    /\ lockQ = <<>>
    /\ cmd = [k \in Cmds |-> Idle]
    /\ sig = SigIdle
    /\ persisted = [valid |-> FALSE, descs |-> {}]
    /\ RconOff /\ CodecOff /\ StatusOff

\* Commands are issued in the first channel only.
RestartChannels == {1}

NextRestart ==
    \/ Boot /\ UNCHANGED <<rvars, cvars, svars>>
    \/ Restart /\ UNCHANGED <<rvars, cvars, svars>>
    \/ \E k \in Cmds, c \in RestartChannels : CmdStart(k, c) /\ UNCHANGED <<rvars, cvars, svars>>
    \/ \E k \in Cmds : StartCheck(k) /\ UNCHANGED <<rvars, cvars, svars>>
    \/ \E k \in Cmds : StartService(k) /\ UNCHANGED <<rvars, cvars, svars>>
    \/ \E k \in Cmds : StartPush(k) /\ UNCHANGED <<rvars, cvars, svars>>
    \/ \E k \in Cmds, c \in RestartChannels : CmdStop(k, c) /\ UNCHANGED <<rvars, cvars, svars>>
    \/ \E k \in Cmds : StopLocked(k) /\ UNCHANGED <<rvars, cvars, svars>>
    \/ \E k \in Cmds : StopSay(k) /\ UNCHANGED <<rvars, cvars, svars>>
    \/ \E k \in Cmds : CmdReturn(k) /\ UNCHANGED <<rvars, cvars, svars>>
    \/ \E s \in Svcs : SvcBegin(s) /\ UNCHANGED <<rvars, cvars, svars>>
    \/ \E s \in Svcs : Poll(s) /\ UNCHANGED <<rvars, cvars, svars>>
    \/ \E s \in Svcs : Edit(s) /\ UNCHANGED <<rvars, cvars, svars>>
    \/ \E s \in Svcs : TimerElapsed(s) /\ UNCHANGED <<rvars, cvars, svars>>
    \/ \E s \in Svcs : Select(s) /\ UNCHANGED <<rvars, cvars, svars>>
    \/ \E s \in Svcs : SvcRemove(s) /\ UNCHANGED <<rvars, cvars, svars>>
    \/ SigTerm /\ UNCHANGED <<rvars, cvars, svars>>
    \/ Persist /\ UNCHANGED <<rvars, cvars, svars>>
    \/ WriteDone /\ UNCHANGED <<rvars, cvars, svars>>
    \/ MainReturn /\ UNCHANGED <<rvars, cvars, svars>>

\* Up to MaxBoots runs of the process, each restoring what the last one wrote.
SpecRestart == InitRestart /\ [][NextRestart]_allvars

(* ------------- one run in which every started call returns ------------- *)

\* Commands are handled one at a time.
LiveCmds == {1}

NextLive ==
    \/ Boot /\ UNCHANGED <<rvars, cvars, svars>>
    \/ \E k \in LiveCmds, c \in Channels : CmdStart(k, c) /\ UNCHANGED <<rvars, cvars, svars>>
    \/ \E k \in LiveCmds : StartCheck(k) /\ UNCHANGED <<rvars, cvars, svars>>
    \/ \E k \in LiveCmds : StartService(k) /\ UNCHANGED <<rvars, cvars, svars>>
    \/ \E k \in LiveCmds : StartPush(k) /\ UNCHANGED <<rvars, cvars, svars>>
    \/ \E k \in LiveCmds, c \in Channels : CmdStop(k, c) /\ UNCHANGED <<rvars, cvars, svars>>
    \/ \E k \in LiveCmds : StopLocked(k) /\ UNCHANGED <<rvars, cvars, svars>>
    \/ \E k \in LiveCmds : StopSay(k) /\ UNCHANGED <<rvars, cvars, svars>>
    \/ \E k \in LiveCmds : CmdReturn(k) /\ UNCHANGED <<rvars, cvars, svars>>
    \/ \E s \in Svcs : SvcBegin(s) /\ UNCHANGED <<rvars, cvars, svars>>
    \/ \E s \in Svcs : Poll(s) /\ UNCHANGED <<rvars, cvars, svars>>
    \/ \E s \in Svcs : Edit(s) /\ UNCHANGED <<rvars, cvars, svars>>
    \/ \E s \in Svcs : TimerElapsed(s) /\ UNCHANGED <<rvars, cvars, svars>>
    \/ \E s \in Svcs : Select(s) /\ UNCHANGED <<rvars, cvars, svars>>
    \/ \E s \in Svcs : SvcRemove(s) /\ UNCHANGED <<rvars, cvars, svars>>
    \/ SigTerm /\ UNCHANGED <<rvars, cvars, svars>>
    \/ Persist /\ UNCHANGED <<rvars, cvars, svars>>
    \/ WriteDone /\ UNCHANGED <<rvars, cvars, svars>>
    \/ MainReturn /\ UNCHANGED <<rvars, cvars, svars>>

\* A step of the task of service s: the runtime polls a woken task, and the
\* call the task awaits returns.  The sleep of select! is not such a call.
SvcStep(s) ==
    /\ s \in Svcs
    /\ \/ SvcBegin(s) \/ Poll(s) \/ Edit(s) \/ Select(s) \/ SvcRemove(s)
    /\ UNCHANGED <<rvars, cvars, svars>>

\* A step of a command that has been accepted: its reply or its lock.
CmdStep(k) ==
    /\ \/ StartCheck(k) \/ StartService(k) \/ StartPush(k)
       \/ StopLocked(k) \/ StopSay(k)
    /\ UNCHANGED <<rvars, cvars, svars>>

\* A step of the signal handler once the signal has arrived.
SigStep ==
    /\ Persist \/ WriteDone
    /\ UNCHANGED <<rvars, cvars, svars>>

\* Every call that was started returns and every woken task is polled.
Fairness ==
    /\ \A s \in 1..MaxAnchors : WF_allvars(SvcStep(s))
    /\ \A k \in LiveCmds : WF_allvars(CmdStep(k))
    /\ WF_allvars(SigStep)

SpecLive == Init /\ [][NextLive]_allvars /\ Fairness

(* ------------------------ the console client (rcon.rs) ----------------- *)

MaxCallers == 2       \* console command invocations in flight at the same time
MaxReqs    == 3       \* packets written to the connection in one run
MaxFrags   == 2       \* packets the server answers one request with

I32_MAX == 2147483647
AUTH    == 3
EXEC    == 2

Callers == 1..MaxCallers
Main    == 0          \* the main task, inside RconClient::connect

\* AtomicI32::fetch_add(1): wrapping.
fetch_add(v) == IF v = I32_MAX THEN -I32_MAX - 1 ELSE v + 1

\* The counter of a client whose connect has just written the authentication
\* packet, and of clients that have served requests for a long time.
StartIds == {1, I32_MAX, -2}

\* The request ids a server may put in the first packet of its answer.
ResponseIds(id) == {id, -1, fetch_add(id)}

\* The tail of RconClient::send: the packet that was read against the id sent.
send_result(packet_req_id, id) ==
    IF packet_req_id = id THEN "Ok"
    ELSE IF packet_req_id = -1 THEN "Err(Unauthorized)"
    ELSE "Err(Mismatch)"

CallIdle == [pc |-> "idle", kind |-> "none", ptype |-> 0, id |-> 0, seq |-> 0,
             res |-> "none", got |-> 0]

CallDone(kind, res, got) == [CallIdle EXCEPT !.pc = "done", !.kind = kind,
                                             !.res = res, !.got = got]

Fatal(kind, res) == kind # "connect" /\ res \in {"Err(io)", "Err(Mismatch)"}

\* connect has built the client and written the authentication packet, or
\* the client has been in use and no invocation is in flight.
RconInit ==
    /\ req_id \in StartIds
    /\ rcon = IF req_id = 1 THEN "connecting" ELSE "Some"
    /\ connection = [status |-> "open", inbox |-> <<>>,
                     asked |-> IF req_id = 1
                               THEN <<[id |-> 0, ptype |-> AUTH, seq |-> 1]>>
                               ELSE <<>>]
    /\ rconQ = <<>>
    /\ call = [k \in {Main} \cup Callers |->
                 IF k = Main
                 THEN IF req_id = 1
                      THEN [CallIdle EXCEPT !.pc = "reading", !.kind = "connect",
                                            !.ptype = AUTH, !.seq = 1]
                      ELSE CallDone("connect", "Ok", 1)
                 ELSE CallIdle]
    /\ sent = 1
    /\ failed = FALSE

\* The server answers the oldest request it has not answered: one packet, or
\* several packets carrying the id of the request when the answer to a
\* command is longer than one packet holds.
Respond ==
    /\ connection.status = "open"
    /\ connection.asked # <<>>
    /\ LET r == Head(connection.asked) IN
       \E id \in ResponseIds(r.id), n \in 1..MaxFrags :
          /\ n > 1 => id = r.id /\ r.ptype = EXEC
          /\ connection' =
                [connection EXCEPT
                    !.asked = Tail(@),
                    !.inbox = @ \o [i \in 1..n |-> [req_id |-> id, of |-> r.seq]]]
    /\ UNCHANGED <<rcon, req_id, rconQ, call, sent, failed>>

\* The server closes the connection (read returns Ok(0) once the packets
\* received so far are consumed) or resets it (read and write return Err).
Hangup ==
    /\ connection.status = "open"
    /\ \/ connection' = [connection EXCEPT !.status = "eof", !.asked = <<>>]
       \/ connection' = [status |-> "reset", inbox |-> <<>>, asked |-> <<>>]
    /\ UNCHANGED <<rcon, req_id, rconQ, call, sent, failed>>

\* RconClient::send up to its read, by invocation k holding the client as the
\* head of `held`: fetch_add, RconPacket::new, write_all(..).await?
Send(k, kind, held) ==
    /\ req_id' = fetch_add(req_id)
    /\ IF connection.status = "reset"
       THEN /\ call' = [call EXCEPT ![k] = CallDone(kind, "Err(io)", 0)]
            /\ rconQ' = Tail(held)
            /\ failed' = TRUE
            /\ sent' = sent + 1
            /\ UNCHANGED connection
       ELSE /\ call' = [call EXCEPT ![k] =
                          [CallIdle EXCEPT !.pc = "reading", !.kind = kind,
                                           !.ptype = EXEC, !.id = req_id,
                                           !.seq = sent + 1]]
            /\ connection' =
                  IF connection.status = "open"
                  THEN [connection EXCEPT
                           !.asked = Append(@, [id |-> req_id, ptype |-> EXEC,
                                                seq |-> sent + 1])]
                  ELSE connection
            /\ sent' = sent + 1
            /\ rconQ' = held
            /\ UNCHANGED failed
    /\ UNCHANGED rcon

\* do_command (command, say, whitelist) or apt moo is invoked as k.
Invoke(k, kind) ==
    /\ rcon # "connecting"
    /\ call[k].pc = "idle"
    /\ sent < MaxReqs
    /\ \A j \in Callers : j < k => call[j].pc # "idle"
    /\ IF rcon = "None"
       THEN /\ call' = [call EXCEPT ![k] =
                          CallDone(kind, IF kind = "apt" THEN "skipped"
                                         ELSE "Err(NotConnected)", 0)]
            /\ UNCHANGED <<rcon, req_id, connection, rconQ, sent, failed>>
       ELSE IF rconQ = <<>>
       THEN Send(k, kind, <<k>>)
       ELSE /\ call' = [call EXCEPT ![k] =
                          [CallIdle EXCEPT !.pc = "lock_wait", !.kind = kind]]
            /\ rconQ' = Append(rconQ, k)
            /\ UNCHANGED <<rcon, req_id, connection, sent, failed>>

\* The client is handed to a waiting invocation.
Locked(k) ==
    /\ call[k].pc = "lock_wait"
    /\ rconQ # <<>> /\ Head(rconQ) = k
    /\ Send(k, call[k].kind, rconQ)

\* The rest of send: connection.read(packet.as_bytes_mut()).await?, whose
\* byte count is dropped, then the comparison of the ids.  The buffer is the
\* packet that was written: a read of no bytes leaves the request in it.
Read(k) ==
    /\ call[k].pc = "reading"
    /\ \/ /\ connection.status = "reset"
          /\ call' = [call EXCEPT ![k] = CallDone(@.kind, "Err(io)", 0)]
          /\ UNCHANGED connection
       \/ /\ connection.status # "reset"
          /\ connection.inbox # <<>>
          /\ LET packet == Head(connection.inbox) IN
             call' = [call EXCEPT ![k] =
                        CallDone(@.kind, send_result(packet.req_id, @.id), packet.of)]
          /\ connection' = [connection EXCEPT !.inbox = Tail(@)]
       \/ /\ connection.status = "eof"
          /\ connection.inbox = <<>>
          /\ call' = [call EXCEPT ![k] = CallDone(@.kind, send_result(@.id, @.id), 0)]
          /\ UNCHANGED connection
    /\ failed' = (failed \/ Fatal(call'[k].kind, call'[k].res))
    /\ IF k = Main
       THEN /\ rcon' = IF call'[k].res = "Ok" THEN "Some" ELSE "None"
            /\ UNCHANGED rconQ
       ELSE /\ rconQ' = Tail(rconQ)
            /\ UNCHANGED rcon
    /\ UNCHANGED <<req_id, sent>>

\* The invocation returns.
Return(k) ==
    /\ call[k].pc = "done"
    /\ call' = [call EXCEPT ![k] = CallIdle]
    /\ UNCHANGED <<rcon, req_id, connection, rconQ, sent, failed>>

\* The registry, the process and the services are not followed.
RegistryOff ==
    /\ phase = "off"
    /\ boots = 0
    /\ store = <<>>
    /\ nextMid = 1
    /\ cancel_token = FALSE
    /\ registry = <<>>
    /\ services = <<>>
    /\ lockQ = <<>>
    /\ cmd = <<>>
    /\ sig = <<>>
    /\ persisted = <<>>

InitRcon == RconInit /\ RegistryOff /\ CodecOff /\ StatusOff

NextRcon ==
    \/ Respond /\ UNCHANGED <<vars, cvars, svars>>
    \/ Hangup /\ UNCHANGED <<vars, cvars, svars>>
    \/ \E k \in Callers, kind \in {"do_command", "apt"} : Invoke(k, kind) /\ UNCHANGED <<vars, cvars, svars>>
    \/ \E k \in Callers : Locked(k) /\ UNCHANGED <<vars, cvars, svars>>
    \/ \E k \in {Main} \cup Callers : Read(k) /\ UNCHANGED <<vars, cvars, svars>>
    \/ \E k \in Callers : Return(k) /\ UNCHANGED <<vars, cvars, svars>>

\* The console client from connect on, with up to MaxCallers invocations at
\* a time.
SpecRcon == InitRcon /\ [][NextRcon]_allvars

(* ------------- codecs: varint (monitor.rs), RconPacket (rcon.rs) ------- *)

MaxLen == 3           \* length of the short payloads tried

SEGMENT     == 127
CONTINUE    == 128
VIBUF_LEN   == 5
MAX_PAYLOAD == 4096

\* What a call comes to: a value, or a panic.
Returned(v) == [ok |-> TRUE, val |-> v]
Panic       == [ok |-> FALSE]

RECURSIVE Pow2(_)
Pow2(n) == IF n = 0 THEN 1 ELSE 2 * Pow2(n - 1)

\* Bit j of the natural n.
Bit(n, j) == (n \div Pow2(j)) % 2

\* An i32 is held here as its 32 bits, bit 0 the lowest.
ZeroBits == [j \in 0..31 |-> 0]

RECURSIVE LowSum(_, _)
LowSum(x, j) == IF j < 0 THEN 0 ELSE x[j] * Pow2(j) + LowSum(x, j - 1)

\* The value of 32 bits read as an i32.
to_i32(x) == IF x[31] = 1 THEN (LowSum(x, 30) - I32_MAX) - 1 ELSE LowSum(x, 30)

\* x | ((m as i32) << sh) for a u8 m: the bits shifted past bit 31 are lost.
or_shifted(x, m, sh) ==
    [j \in 0..31 |->
        IF x[j] = 1 \/ (j >= sh /\ j - sh <= 7 /\ Bit(m, j - sh) = 1) THEN 1 ELSE 0]

\* The loop of varint_encode from byte i of `out` on; falling out of the loop
\* is unreachable!().  value & !SEGMENT is 0 for 0..=127 only, and >>= on an
\* i32 keeps the sign.
RECURSIVE encode_from(_, _, _)
encode_from(value, out, i) ==
    IF i > Len(out) THEN Panic
    ELSE IF 0 <= value /\ value <= SEGMENT
    THEN Returned([out |-> [out EXCEPT ![i] = value], n |-> i])
    ELSE encode_from(value \div (SEGMENT + 1),
                     [out EXCEPT ![i] = (value % (SEGMENT + 1)) + CONTINUE],
                     i + 1)

varint_encode(value) == encode_from(value, [i \in 1..VIBUF_LEN |-> 0], 1)

\* byte * 0x7F in u8: an overflow panics in a debug build and wraps in a
\* release build.
times_segment(byte, build) ==
    IF byte * SEGMENT <= 255 THEN Returned(byte * SEGMENT)
    ELSE IF build = "debug" THEN Panic
    ELSE Returned((byte * SEGMENT) % 256)

\* The loop of varint_decode from byte i (counted from 1) on.
RECURSIVE decode_from(_, _, _, _)
decode_from(bytes, x, i, build) ==
    IF i > Len(bytes) THEN Returned([x |-> to_i32(x), len |-> VIBUF_LEN])
    ELSE LET m == times_segment(bytes[i], build) IN
         IF ~m.ok THEN Panic
         ELSE LET y == or_shifted(x, m.val, 7 * (i - 1)) IN
              IF bytes[i] < CONTINUE
              THEN Returned([x |-> to_i32(y), len |-> i])
              ELSE decode_from(bytes, y, i + 1, build)

varint_decode(bytes, build) == decode_from(bytes, ZeroBits, 1, build)

\* i32 to its bytes in memory and back (little endian).
le_bytes(v) == [i \in 1..4 |-> (v \div Pow2(8 * (i - 1))) % 256]
from_le(b) == b[1] + 256 * b[2] + 65536 * b[3]
              + 16777216 * (IF b[4] >= 128 THEN b[4] - 256 ELSE b[4])

\* A length that was meant to leave out the two trailing bytes.
new_length_unpadded(payload_len) == 4 * 2 + payload_len

\* RconPacket::new: size_of::<i32>() * 2 + payload.len() + 2
new_length(payload_len) == 4 * 2 + payload_len + 2

\* RconPacket::new; payload[..pbytes.len()] panics past MAX_PAYLOAD.
RconPacket_new(id, ptype, payload) ==
    IF Len(payload) > MAX_PAYLOAD THEN Panic
    ELSE Returned([length |-> new_length(Len(payload)),
                   req_id |-> id,
                   ptype |-> ptype,
                   payload |-> [i \in 1..MAX_PAYLOAD |->
                                  IF i <= Len(payload) THEN payload[i] ELSE 0],
                   padding |-> <<0, 0>>])

\* The packet as it lies in memory (repr(C, packed)).
image(p) == le_bytes(p.length) \o le_bytes(p.req_id) \o le_bytes(p.ptype)
            \o p.payload \o p.padding

\* RconPacket::as_bytes: the first length + 4 bytes.
as_bytes(p) == SubSeq(image(p), 1, p.length + 4)

\* A zeroed packet overwritten from its first byte on by `bytes`.
read_into_zeroed(bytes) ==
    LET buf == [i \in 1..(12 + MAX_PAYLOAD + 2) |->
                  IF i <= Len(bytes) THEN bytes[i] ELSE 0] IN
    [length |-> from_le(SubSeq(buf, 1, 4)),
     req_id |-> from_le(SubSeq(buf, 5, 8)),
     ptype |-> from_le(SubSeq(buf, 9, 12)),
     payload |-> SubSeq(buf, 13, 12 + MAX_PAYLOAD),
     padding |-> SubSeq(buf, 13 + MAX_PAYLOAD, 14 + MAX_PAYLOAD)]

\* RconPacket::payload
payload_of(p) == SubSeq(p.payload, 1, p.length - 4 * 2 - 2)

RECURSIVE SeqsUpTo(_, _)
SeqsUpTo(S, n) ==
    IF n = 0 THEN {<<>>}
    ELSE LET shorter == SeqsUpTo(S, n - 1) IN
         shorter \cup {Append(s, b) : s \in shorter, b \in S}

\* Short payloads, and payloads around the cap.
Payloads ==
    SeqsUpTo({97, 98}, MaxLen)
       \cup {[i \in 1..n |-> 97] : n \in {MAX_PAYLOAD - 1, MAX_PAYLOAD, MAX_PAYLOAD + 1}}

Values == {0, 1, 2, 3, 127, 128, 300, 16383, 16384, 25565, 2097152, 268435456,
           I32_MAX, -1, -128, -I32_MAX - 1}

InitCodec ==
    /\ \/ \E v \in Values, build \in {"debug", "release"} :
             arg = [fn |-> "varint", value |-> v, build |-> build]
       \/ \E id \in {0, -1, I32_MAX}, ptype \in {AUTH, EXEC}, payload \in Payloads :
             arg = [fn |-> "packet", req_id |-> id, ptype |-> ptype,
                    payload |-> payload]
    /\ ret = <<>>
    /\ RegistryOff /\ RconOff /\ StatusOff

VarintEncode ==
    /\ arg.fn = "varint"
    /\ ret = <<>>
    /\ ret' = <<varint_encode(arg.value)>>
    /\ UNCHANGED arg

VarintDecode ==
    /\ arg.fn = "varint"
    /\ Len(ret) = 1
    /\ ret[1].ok
    /\ ret' = Append(ret, varint_decode(ret[1].val.out, arg.build))
    /\ UNCHANGED arg

PacketNew ==
    /\ arg.fn = "packet"
    /\ ret = <<>>
    /\ LET p == RconPacket_new(arg.req_id, arg.ptype, arg.payload) IN
       ret' = << IF p.ok THEN Returned(as_bytes(p.val)) ELSE Panic >>
    /\ UNCHANGED arg

PacketParse ==
    /\ arg.fn = "packet"
    /\ Len(ret) = 1
    /\ ret[1].ok
    /\ ret' = Append(ret, Returned(payload_of(read_into_zeroed(ret[1].val))))
    /\ UNCHANGED arg

NextCodec ==
    \/ VarintEncode /\ UNCHANGED <<vars, rvars, svars>>
    \/ VarintDecode /\ UNCHANGED <<vars, rvars, svars>>
    \/ PacketNew /\ UNCHANGED <<vars, rvars, svars>>
    \/ PacketParse /\ UNCHANGED <<vars, rvars, svars>>

\* One call of a codec function and of its inverse.
SpecCodec == InitCodec /\ [][NextCodec]_allvars

(* --------------- the status loop of one service (run_status) ----------- *)

\* What a reachable target may report.
Counts   == {0, 2}          \* players.online
Maxes    == {20}            \* players.max
Favicons == {"", "A", "B"}  \* base64 part of favicon, "" when absent

\* EditAttachments::new(), .add(attachment), .keep(id)
AttNew       == [op |-> "new", favicon |-> ""]
AttAdd(f)    == [op |-> "add", favicon |-> f]
AttKeep      == [op |-> "keep", favicon |-> ""]

\* An else branch that leaves the count of the cycle before.
offline_stale(l) == [l EXCEPT !.player_sample = "None", !.is_online = FALSE]

\* The else branch of `if let Ok(stream) = TcpStream::connect(..)`.
offline(l) == [l EXCEPT !.player_count = 0, !.player_sample = "None",
                        !.is_online = FALSE]

\* The branch of a target that answered with a well-formed status.
online(l, attached, count, max, sample, favicon) ==
    [l EXCEPT !.player_count = count,
              !.player_max = max,
              !.player_sample = sample,
              !.prev_favicon = IF attached = <<>> \/ favicon # l.prev_favicon
                               THEN favicon ELSE @,
              !.attachments = IF attached = <<>> \/ favicon # l.prev_favicon
                              THEN AttAdd(favicon) ELSE AttKeep,
              !.is_online = TRUE]

\* ("ONLINE", Color::FOOYOO) or ("OFFLINE", Color::RED)
status_field(is_online) == IF is_online THEN "ONLINE" ELSE "OFFLINE"

\* The attachments of the message after an edit with `att`.
edited(attached, att) ==
    IF att.op = "add" THEN <<att.favicon>>
    ELSE IF att.op = "keep" THEN attached
    ELSE <<>>

NoUpdate == [status |-> "none", player_count |-> 0, player_max |-> 0,
             player_sample |-> "", att |-> AttNew, reachable |-> FALSE,
             before |-> <<>>, before_count |-> 0]

\* run_status has set up its locals; the anchor message is the one start has
\* just posted, or one that an earlier run of the service left with an image.
InitStatus ==
    /\ run = [pc |-> "query", is_online |-> FALSE, reachable |-> FALSE,
              player_count |-> 0, player_max |-> 0, player_sample |-> "",
              prev_favicon |-> "", attachments |-> AttNew, res |-> "none"]
    /\ msg \in {[attachments |-> <<>>], [attachments |-> <<"A">>]}
    /\ published = NoUpdate
    /\ RegistryOff /\ RconOff /\ CodecOff

StatusDone(res) == [run EXCEPT !.pc = "done", !.res = res]

\* One cycle from get_message to the end of the if / else:
\*   http.get_message(cid, mid).await?                       Err(http)
\*   TcpStream::connect(..) fails                            offline
\*   write_all / read_exact fail                             Err(io)
\*   json::from_slice / BASE64_STANDARD.decode fail          Err(malformed)
StatusQuery ==
    /\ run # <<>> /\ run.pc = "query"
    /\ \/ \E err \in {"Err(http)", "Err(io)", "Err(malformed)"} :
             run' = StatusDone(err)
       \/ run' = [offline(run) EXCEPT !.pc = "edit", !.reachable = FALSE]
       \/ \E count \in Counts, max \in Maxes, favicon \in Favicons :
             run' = [online(run, msg.attachments, count, max,
                            IF count = 0 THEN "" ELSE "names", favicon)
                       EXCEPT !.pc = "edit", !.reachable = TRUE]
    /\ UNCHANGED <<msg, published>>

\* msg.edit(.., EditMessage::new().attachments(attachments.clone()).embed(..))
StatusPublish ==
    /\ run # <<>> /\ run.pc = "edit"
    /\ \/ /\ run' = [run EXCEPT !.pc = "sleeping"]
          /\ msg' = [msg EXCEPT !.attachments = edited(@, run.attachments)]
          /\ published' = [status |-> status_field(run.is_online),
                           player_count |-> run.player_count,
                           player_max |-> run.player_max,
                           player_sample |-> run.player_sample,
                           att |-> run.attachments,
                           reachable |-> run.reachable,
                           before |-> msg.attachments,
                           before_count |-> published.player_count]
       \/ /\ run' = StatusDone("Err(http)")
          /\ UNCHANGED <<msg, published>>

\* select!: the sleep elapses and the loop goes round.
StatusWake ==
    /\ run # <<>> /\ run.pc = "sleeping"
    /\ run' = [run EXCEPT !.pc = "query"]
    /\ UNCHANGED <<msg, published>>

\* select!: the cancellation is observed, break, Ok(token.is_cancelled()).
StatusBreak ==
    /\ run # <<>> /\ run.pc = "sleeping"
    /\ run' = StatusDone("Ok(true)")
    /\ UNCHANGED <<msg, published>>

NextStatus ==
    \/ StatusQuery /\ UNCHANGED <<vars, rvars, cvars>>
    \/ StatusPublish /\ UNCHANGED <<vars, rvars, cvars>>
    \/ StatusWake /\ UNCHANGED <<vars, rvars, cvars>>
    \/ StatusBreak /\ UNCHANGED <<vars, rvars, cvars>>

\* The status loop of one service with everything it publishes.
SpecStatus == InitStatus /\ [][NextStatus]_allvars

(* ------------------------------- claims -------------------------------- *)

InRegistry(s) == s \in Range(registry)

\* The step in which stop(c), invoked as k, runs its critical section.
StopStep(k, c) ==
    \/ Free /\ CmdStop(k, c)
    \/ cmd[k].channel = c /\ StopLocked(k)

\* The step in which start(c), invoked as k, runs its existence check.
CheckStep(k, c) ==
    \/ Free /\ CmdStart(k, c)
    \/ cmd[k].channel = c /\ StartCheck(k)

\* The step in which a start pushes its service.
PushStep == phase' = "running" /\ Len(registry') = Len(registry) + 1

\* C1: in every reachable state the registry holds at most one entry per
\* output channel identifier.
C1_OneEntryPerChannel ==
    \A i, j \in 1..Len(registry) :
        i # j => services[registry[i]].channel_id # services[registry[j]].channel_id

\* C2: a start whose check finds an entry for its channel returns
\* AlreadyExists and leaves registry and services as they were; a stop that
\* removed an entry leaves its channel free, so that a start after it
\* succeeds; and a start that pushes leaves exactly one entry for its channel.
C2_Exclusivity ==
    [][ /\ \A k \in Cmds, c \in Channels :
              CheckStep(k, c) /\ any(registry, services, c)
                 => /\ cmd'[k] = Done("AlreadyExists")
                    /\ UNCHANGED <<registry, services>>
        /\ \A k \in Cmds, c \in Channels :
              StopStep(k, c) /\ any(registry, services, c)
                 => ~any(registry', services', c)
        /\ PushStep
              => Count(registry', services',
                       services'[registry'[Len(registry')]].channel_id) = 1
      ]_vars

\* C3: a stop on a channel with no registry entry returns NotFound and
\* leaves the registry and every cancellation handle as they were.
C3_StopNotFound ==
    [][ \A k \in Cmds, c \in Channels :
           StopStep(k, c) /\ ~any(registry, services, c)
              => /\ cmd'[k] = Done("NotFound")
                 /\ registry' = registry
                 /\ cancel_token' = cancel_token
                 /\ \A s \in Svcs : services'[s].token = services[s].token
      ]_vars

\* A stop has returned NotFound while the registry holds a service that is
\* not cancelled.
C3_Witness ==
    /\ \E k \in Cmds : cmd[k].result = "NotFound"
    /\ \E s \in Svcs : InRegistry(s) /\ ~services[s].token

\* C4: a stop on a channel that holds an entry cancels that service and
\* removes its entry in one step under the registry lock, whatever the
\* service task is doing; the lock is kept while the reply is awaited and the
\* registry does not change until it is released.
C4_StopCancelsAndRemoves ==
    /\ [][ \A k \in Cmds, c \in Channels :
              StopStep(k, c) /\ any(registry, services, c)
                 => LET victim == registry[position(registry, services, c)] IN
                    /\ services'[victim].token
                    /\ victim \notin Range(registry')
                    /\ Len(registry') = Len(registry) - 1
                    /\ cmd'[k].pc = "stop_say"
                    /\ Len(lockQ') > 0 /\ Head(lockQ') = CmdTask(k)
         ]_vars
    /\ [][ (\E k \in Cmds : cmd[k].pc = "stop_say") /\ phase' = "running"
              => registry' = registry ]_vars

\* A stop is awaiting its reply; the service it cancelled and removed is
\* still inside a network call.
C4_Witness ==
    \E k \in Cmds, s \in Svcs :
        /\ cmd[k].pc = "stop_say"
        /\ services[s].channel_id = cmd[k].channel
        /\ services[s].token
        /\ ~InRegistry(s)
        /\ services[s].pc \in {"poll", "edit"}

\* C5: once the task of a service whose loop met a malformed response or a
\* publish failure has finished, the registry holds no entry for that service.
C5_SelfRemoval ==
    \A s \in Svcs :
        /\ services[s].pc \in {"done", "panicked"}
        /\ services[s].res \in {"Err(malformed)", "Err(http)"}
        => ~InRegistry(s)

\* C6: at the wait point a service whose cancellation has fired never goes
\* on to another poll cycle.
C6_NoCycleAfterCancel ==
    [][ \A s \in Svcs :
           /\ phase' = "running"
           /\ services[s].pc = "sleeping"
           /\ services[s].token
           => services'[s].pc # "poll"
      ]_vars

\* C7: a status query whose connection cannot be established, or whose
\* write or read fails, ends in an offline update being published: the
\* service goes on to edit the anchor message and stays in the registry.
C7_OfflineNotError ==
    [][ \A s \in Svcs :
           /\ phase' = "running"
           /\ services[s].pc = "poll"
           /\ \/ services'[s].pc = "edit" /\ ~services'[s].is_online
              \/ services'[s].res = "Err(io)"
           => /\ services'[s].pc = "edit"
              /\ ~services'[s].is_online
              /\ registry' = registry
      ]_vars

Descriptors == {Descriptor(services[s]) : s \in Range(registry)}

\* C8: when the process starts on a store written by persist, the restored
\* registry holds exactly the persisted descriptors, one entry and one
\* spawned task for each.
C8_PersistRestore ==
    [][ phase # "running" /\ phase' = "running" /\ persisted.valid
           => /\ Descriptors' = persisted.descs
              /\ Len(registry') = Cardinality(persisted.descs)
              /\ Len(services') = Len(registry')
              /\ \A s \in DOMAIN services' :
                    InRegistry(s)' /\ services'[s].pc = "spawned"
      ]_vars

\* The process has restarted on a store holding two descriptors, one of them
\* a Status monitor started by a command of the run before.
C8_Witness ==
    /\ boots = 2
    /\ phase = "running"
    /\ persisted.valid
    /\ Descriptors = persisted.descs
    /\ Cardinality(persisted.descs) = 2
    /\ \E s \in Svcs : services[s].monitor_type.tag = "Status"
    /\ \A s \in Svcs : services[s].pc = "spawned"

\* C9: while the snapshot is being written every service in it has been
\* cancelled, the handler holds the registry lock, and the snapshot is the
\* registry as it stands.
C9_CancelBeforeSnapshot ==
    sig.pc = "writing" /\ phase = "running"
       => /\ \A s \in Range(sig.snap) : services[s].token
          /\ cancel_token
          /\ Len(lockQ) > 0 /\ Head(lockQ) = SigTask
          /\ sig.snap = registry
          /\ sig.data = to_string(registry, services)

\* The snapshot is being written while a service in it is still inside its
\* poll cycle.
C9_Witness ==
    /\ sig.pc = "writing"
    /\ phase = "running"
    /\ \E s \in Range(sig.snap) : services[s].pc \in {"poll", "edit"}

\* C10: the process never exits while the signal handler task has yet to
\* complete the write.
C10_WrittenBeforeExit ==
    phase = "exited" => sig.pc \notin {"persist_wait", "writing"}


(* ------------------------ claims: console client ----------------------- *)

\* The step in which invocation k reads a packet off the connection.
ReadsPacket(k) ==
    /\ call[k].pc = "reading"
    /\ call'[k].pc = "done"
    /\ connection.status # "reset"
    /\ connection.inbox # <<>>

\* C11: at most one request is in flight, the invocation whose request it is
\* holds the client, and every packet an invocation reads answers the
\* request that invocation wrote.
C11_OneInFlightOwnResponse ==
    /\ [](/\ Cardinality({k \in DOMAIN call : call[k].pc = "reading"}) <= 1
          /\ \A k \in DOMAIN call :
                k # Main /\ call[k].pc = "reading"
                   => rconQ # <<>> /\ Head(rconQ) = k)
    /\ [][ \A k \in DOMAIN call :
              ReadsPacket(k) => Head(connection.inbox).of = call[k].seq
         ]_allvars

\* C12: once an execute has failed with an I/O error or a mismatch, no later
\* execute returns a success result.
C12_FailureIsPermanent ==
    [][ \A k \in DOMAIN call :
           failed /\ call[k].pc # "done" /\ call'[k].pc = "done"
              => call'[k].res # "Ok"
      ]_allvars

\* C13: a packet read with request id -1 yields AuthenticationFailed, in
\* connect and in every later request, whatever id the request was sent with.
C13_MinusOneIsAuthFailure ==
    [][ \A k \in DOMAIN call :
           ReadsPacket(k) /\ Head(connection.inbox).req_id = -1
              => call'[k].res = "Err(Unauthorized)"
      ]_allvars


(* ---------------------------- claims: codecs --------------------------- *)

\* C14: for a payload of length L up to the cap, the packet declares length
\* 8 + L + 2, its 4 + 8 + L + 2 bytes are length, request id, type, payload
\* and two zero bytes, and parsing those bytes gives the payload back.
C14_PacketFraming ==
    arg # <<>> /\ arg.fn = "packet" /\ Len(arg.payload) <= MAX_PAYLOAD /\ Len(ret) >= 1
       => LET b == ret[1].val
              L == Len(arg.payload) IN
          /\ ret[1].ok
          /\ Len(b) = 4 + 8 + L + 2
          /\ from_le(SubSeq(b, 1, 4)) = 8 + L + 2
          /\ from_le(SubSeq(b, 5, 8)) = arg.req_id
          /\ from_le(SubSeq(b, 9, 12)) = arg.ptype
          /\ SubSeq(b, 13, 12 + L) = arg.payload
          /\ b[13 + L] = 0 /\ b[14 + L] = 0
          /\ Len(ret) = 2 => ret[2] = Returned(arg.payload)

\* A payload of exactly MAX_PAYLOAD bytes has been built and parsed back.
C14_Witness ==
    /\ arg # <<>> /\ arg.fn = "packet"
    /\ Len(arg.payload) = MAX_PAYLOAD
    /\ Len(ret) = 2
    /\ ret[2] = Returned(arg.payload)

\* C15: for every 32-bit signed value encode returns at most 5 bytes, and
\* decode of them returns the value and the number of bytes encode wrote.
C15_VarintRoundTrip ==
    arg # <<>> /\ arg.fn = "varint"
       => /\ Len(ret) >= 1 => ret[1].ok /\ ret[1].val.n <= 5
          /\ Len(ret) = 2
                => ret[2] = Returned([x |-> arg.value, len |-> ret[1].val.n])


(* -------------------------- claims: status loop ------------------------ *)

\* C16: whatever the cycles before published, the update of a cycle whose
\* target was unreachable has status field OFFLINE and player count 0.
C16_OfflineUpdate ==
    /\ run # <<>> /\ run.pc = "edit" /\ ~run.reachable
          => status_field(run.is_online) = "OFFLINE" /\ run.player_count = 0
    /\ published # <<>> /\ published.status # "none" /\ ~published.reachable
          => published.status = "OFFLINE" /\ published.player_count = 0

\* An offline update has been published right after an update that showed
\* two players online.
C16_Witness ==
    /\ published # <<>>
    /\ published.status = "OFFLINE"
    /\ ~published.reachable
    /\ published.before_count = 2

\* C18: an update uploads an image only when the favicon differs from the
\* one the message showed before; every other update keeps the attachment of
\* the message by reference.
C18_UploadOnlyOnChange ==
    published # <<>> /\ published.status # "none"
       => /\ published.att.op = "add" => published.before # <<published.att.favicon>>
          /\ published.att.op # "add" /\ published.before # <<>>
                => published.att.op = "keep"

\* The step in which the task of service s finishes.
TaskEnds(s) ==
    /\ phase' = "running"
    /\ services[s].pc \notin {"done", "panicked"}
    /\ services'[s].pc \in {"done", "panicked"}

Errs == {"Err(http)", "Err(io)", "Err(malformed)"}

\* C17: the task of a service removes an entry from the registry if and
\* only if its loop ended with an unrecoverable error: a task that ends with
\* an error takes one entry out of the registry, a task that ends because it
\* saw its cancellation leaves the registry as it was, and apart from stop
\* nothing else takes an entry out while the process runs.
C17_RemovesIffError ==
    /\ [][ \A s \in Svcs :
              TaskEnds(s)
                 => IF services'[s].res \in Errs
                    THEN Len(registry') = Len(registry) - 1
                    ELSE registry' = registry
         ]_allvars
    /\ [][ phase' = "running" /\ Len(registry') < Len(registry)
              => \/ \E k \in Cmds : cmd[k].pc # "stop_say" /\ cmd'[k].pc = "stop_say"
                 \/ \E s \in Svcs : TaskEnds(s) /\ services'[s].res \in Errs
         ]_allvars

\* The services of a variant that run gives nothing to do.
Unimplemented == {s \in Svcs : services[s].monitor_type.tag \in {"Advancement", "Death"}}

\* C20: the task of an Advancement or Death service finishes in its first
\* poll with Ok(true): it never queries or edits anything, and the step in
\* which it finishes leaves the registry, the lock, the store and every
\* other service as they were, so its entry is still in the registry.
C20_UnimplementedNoEffect ==
    /\ [](\A s \in Unimplemented :
             /\ services[s].pc \in {"spawned", "done"}
             /\ services[s].pc = "done" => services[s].res = "Ok(true)")
    /\ [][ \A s \in Unimplemented :
              TaskEnds(s)
                 => /\ services[s].pc = "spawned"
                    /\ services'[s].pc = "done"
                    /\ UNCHANGED <<registry, lockQ, store, persisted>>
                    /\ InRegistry(s) => InRegistry(s)'
                    /\ \A o \in Svcs \ {s} : services'[o] = services[o]
         ]_allvars

\* The task of a restored Death service has finished and its entry is in
\* the registry.
C20_Witness ==
    \E s \in Unimplemented :
        /\ services[s].pc = "done"
        /\ services[s].monitor_type.tag = "Death"
        /\ InRegistry(s)
\* C19: cancellation does not interrupt a call and always takes effect.  A
\* cancelled service inside its query goes on to the edit of the same cycle
\* (or fails); inside its edit it does not go back to sleep or to another
\* query; its task ends with Ok(true) only at the wait point; and, every
\* call returning, the task of every cancelled service eventually ends (or
\* the process exits).
C19_CancellationTakesEffect ==
    /\ [][ \A s \in Svcs :
              /\ phase' = "running"
              /\ services[s].token
              /\ services'[s] # services[s]
              => /\ services[s].pc = "poll"
                    => services'[s].pc = "edit" \/ services'[s].res \in Errs
                 /\ services[s].pc = "edit"
                    => services'[s].pc \notin {"sleeping", "poll"}
                 /\ TaskEnds(s) /\ services'[s].res = "Ok(true)"
                       /\ is_status(services[s].monitor_type)
                    => services[s].pc \in {"edit", "sleeping"}
         ]_allvars
    /\ \A s \in 1..MaxAnchors :
          (s \in Svcs /\ services[s].token)
             ~> (s \notin Svcs \/ services[s].pc \in {"done", "panicked"})

\* After SIGTERM a cancelled service is still inside the edit of its cycle
\* while the handler has already written the store.
C19_Witness ==
    \E s \in Svcs :
        /\ services[s].token
        /\ services[s].pc = "edit"
        /\ cancel_token
        /\ sig.pc = "done"
\* C21: when the task of a service whose loop failed takes an entry out of
\* the registry, that entry is its own, and the entry of every other service
\* stays where it was registered.
C21_RemovesOwnEntry ==
    [][ \A s \in Svcs :
           /\ TaskEnds(s)
           /\ services'[s].res \in Errs
           /\ Len(registry') < Len(registry)
           => /\ InRegistry(s)
              /\ ~InRegistry(s)'
              /\ \A o \in Svcs \ {s} : InRegistry(o) => InRegistry(o)'
      ]_allvars
\* C22: whenever the task of a service reaches its removal, the registry
\* holds an entry for its channel, so the lookup finds one and no service
\* task ever panics.
C22_LookupNeverFails ==
    /\ [](\A s \in Svcs : services[s].pc # "panicked")
    /\ [][ \A s \in Svcs :
              TaskEnds(s) /\ services'[s].res \in Errs
                 => any(registry, services, services[s].channel_id)
         ]_allvars
\* C23: connect and execute end with a success result only in a step that
\* reads, off the connection, a packet carrying the id of the request; a
\* read that delivers nothing never ends in success.
C23_SuccessNeedsResponse ==
    [][ \A k \in DOMAIN call :
           /\ call[k].pc = "reading"
           /\ call'[k].pc = "done"
           /\ call'[k].res = "Ok"
           => /\ ReadsPacket(k)
              /\ Head(connection.inbox).req_id = call[k].id
      ]_allvars
\* C24: a stop in channel c leaves the token and the registry membership of
\* every service of another channel as they were, whereas after the shutdown
\* cancellation every service is cancelled, one constructed by a start that
\* completes afterwards included.
C24_StopIsLocalShutdownIsGlobal ==
    /\ [][ \A k \in Cmds, c \in Channels :
              StopStep(k, c)
                 => \A s \in Svcs :
                       services[s].channel_id # c
                          => /\ services'[s].token = services[s].token
                             /\ InRegistry(s)' <=> InRegistry(s)
         ]_allvars
    /\ [](cancel_token /\ phase = "running"
             => \A s \in Svcs : services[s].token)

\* A stop has cancelled and removed the service of its channel and awaits
\* its reply, while a service of another channel is registered and live.
C24_Witness ==
    \E k \in Cmds, s \in Svcs, o \in Svcs :
        /\ cmd[k].pc = "stop_say"
        /\ services[s].channel_id = cmd[k].channel
        /\ services[s].token /\ ~InRegistry(s)
        /\ services[o].channel_id # cmd[k].channel
        /\ ~services[o].token /\ InRegistry(o)
====
